---------------------------- MODULE Spec2Model ----------------------------
(***************************************************************************)
(* A model of fs_usage_sys (src/src/lib.rs, src/src/builder.rs): the line  *)
(* parser parse_fs_usage_line, the event filter should_send_event, the     *)
(* operation classifier OperationType::matches_operation and the           *)
(* FsUsageMonitor pipeline (start / stop / drop, the worker thread's read  *)
(* loop, the unbounded channel and its consumer).                          *)
(*                                                                         *)
(* Strings are TLA+ strings; a character is a string of length one.  An    *)
(* Option<T> is a sequence of length at most one: <<>> is None, <<x>> is   *)
(* Some(x).                                                                *)
(***************************************************************************)
EXTENDS Integers, Sequences, FiniteSets, TLC

(***************************************************************************)
(* Bounds of the model.                                                    *)
(***************************************************************************)
\* start / stop / drop calls made by the owner of the monitor
MaxCalls == 3
\* lines written by all trace sources together
MaxLines == 2

\* calls made on one builder
MaxBuilderCalls == 3

(***************************************************************************)
(* String helpers: the str methods the source uses.                        *)
(***************************************************************************)
Char(s, i) == SubSeq(s, i, i)

\* str::starts_with
StartsWith(s, p) == Len(s) >= Len(p) /\ SubSeq(s, 1, Len(p)) = p

\* str::ends_with
EndsWith(s, p) == Len(s) >= Len(p) /\ SubSeq(s, Len(s) - Len(p) + 1, Len(s)) = p

\* the byte offsets (1-based) at which p occurs in s
Occurrences(s, p) ==
    {i \in 1..(Len(s) - Len(p) + 1) : SubSeq(s, i, i + Len(p) - 1) = p}

\* str::contains
Contains(s, p) == Len(p) = 0 \/ Occurrences(s, p) # {}

Min(S) == CHOOSE x \in S : \A y \in S : x <= y
Max(S) == CHOOSE x \in S : \A y \in S : x >= y

\* str::find, 1-based; 0 is None
Find(s, p) == IF Occurrences(s, p) = {} THEN 0 ELSE Min(Occurrences(s, p))

\* str::rfind, 1-based; 0 is None
RFind(s, p) == IF Occurrences(s, p) = {} THEN 0 ELSE Max(Occurrences(s, p))

\* char::is_whitespace, over the characters the model's lines use
IsWhitespace(c) == c \in {" ", "\t"}

\* str::split_whitespace().collect(): the maximal runs of non-whitespace, in
\* order.  TokenStarts are the offsets where a run begins, TokenEnd(s, i) the
\* offset where the run beginning at i ends.
TokenStarts(s) ==
    {i \in 1..Len(s) :
        ~IsWhitespace(Char(s, i)) /\ (i = 1 \/ IsWhitespace(Char(s, i - 1)))}

TokenEnd(s, i) ==
    Min({j \in i..Len(s) : j = Len(s) \/ IsWhitespace(Char(s, j + 1))})

SplitWhitespace(s) ==
    LET starts == TokenStarts(s)
        kth(k) == CHOOSE i \in starts : Cardinality({j \in starts : j < i}) = k - 1
    IN  [k \in 1..Cardinality(starts) |-> SubSeq(s, kth(k), TokenEnd(s, kth(k)))]

\* str::split(pat).collect(), pat non-empty: the pieces between the
\* non-overlapping occurrences of pat, found left to right
RECURSIVE Split(_, _)
Split(s, pat) ==
    LET k == Find(s, pat)
    IN  IF k = 0
        THEN <<s>>
        ELSE <<SubSeq(s, 1, k - 1)>> \o Split(SubSeq(s, k + Len(pat), Len(s)), pat)

\* Iterator::nth(n) of a split, as an Option
Nth(seq, n) == IF n + 1 <= Len(seq) THEN <<seq[n + 1]>> ELSE <<>>

\* str::replace(from, to): every non-overlapping occurrence, left to right
RECURSIVE Replace(_, _, _)
Replace(s, from, to) ==
    LET k == Find(s, from)
    IN  IF k = 0
        THEN s
        ELSE SubSeq(s, 1, k - 1) \o to
               \o Replace(SubSeq(s, k + Len(from), Len(s)), from, to)

\* str::trim_start / trim_end / trim
RECURSIVE TrimStart(_)
TrimStart(s) ==
    IF Len(s) > 0 /\ IsWhitespace(Char(s, 1)) THEN TrimStart(Tail(s)) ELSE s

RECURSIVE TrimEnd(_)
TrimEnd(s) ==
    IF Len(s) > 0 /\ IsWhitespace(Char(s, Len(s)))
    THEN TrimEnd(SubSeq(s, 1, Len(s) - 1))
    ELSE s

Trim(s) == TrimEnd(TrimStart(s))

\* str::trim_end_matches(c)
RECURSIVE TrimEndMatches(_, _)
TrimEndMatches(s, c) ==
    IF Len(s) > 0 /\ Char(s, Len(s)) = c
    THEN TrimEndMatches(SubSeq(s, 1, Len(s) - 1), c)
    ELSE s

\* [&str]::join(sep)
RECURSIVE Join(_, _)
Join(parts, sep) ==
    IF Len(parts) = 0 THEN ""
    ELSE IF Len(parts) = 1 THEN parts[1]
    ELSE parts[1] \o sep \o Join(Tail(parts), sep)

Digits == <<"0", "1", "2", "3", "4", "5", "6", "7", "8", "9">>
IsDigit(c) == \E d \in 1..10 : Digits[d] = c
DigitVal(c) == (CHOOSE d \in 1..10 : Digits[d] = c) - 1

\* u32 arithmetic on two 16-bit limbs (hi, lo): the checked multiply-and-add
\* of u32::from_str, digit by digit; <<>> once the value exceeds u32::MAX
RECURSIVE CheckedDecimal(_, _, _)
CheckedDecimal(s, hi, lo) ==
    IF Len(s) = 0 THEN <<hi, lo>>
    ELSE LET t == lo * 10 + DigitVal(Head(s))
             h == hi * 10 + (t \div 65536)
         IN  IF h > 65535 THEN <<>> ELSE CheckedDecimal(Tail(s), h, t % 65536)

\* str::parse::<u32>().ok(): an optional leading '+', then one or more digits,
\* and a value that fits 32 bits; <<>> is None.  (The value is a TLC integer,
\* so the lines of the model keep accepted pids below 2^31.)
ParseU32(s) ==
    LET body == IF StartsWith(s, "+") THEN Tail(s) ELSE s
    IN  IF Len(body) > 0 /\ \A i \in 1..Len(body) : IsDigit(Char(body, i))
        THEN LET limbs == CheckedDecimal(body, 0, 0)
             IN  IF limbs = <<>> THEN <<>> ELSE <<limbs[1] * 65536 + limbs[2]>>
        ELSE <<>>

(***************************************************************************)
(* FsEvent and parse_fs_usage_line.                                        *)
(***************************************************************************)
FsEvent(timestamp, process_name, pid, operation, path, result) ==
    [timestamp |-> timestamp, process_name |-> process_name, pid |-> pid,
     operation |-> operation, path |-> path, result |-> result]

\* the mnemonic test that selects the WrData/RdData branch
IsDataTransfer(operation) ==
    StartsWith(operation, "WrData") \/ StartsWith(operation, "RdData")

IsDeviceNode_Never(part) == FALSE

\* part.starts_with("/dev/")
IsDeviceNode(part) == StartsWith(part, "/dev/")

\* The WrData/RdData scan loop over parts[k..], k 1-based; Rust's index is
\* i = k - 1, scanned when 2 <= i < len - 3.  st is the pair
\* [actual_path, device_path_seen]; the result is actual_path after the loop.
RECURSIVE DataTransferScan(_, _, _)
DataTransferScan(parts, k, st) ==
    IF k > Len(parts)
    THEN st.actual_path
    ELSE LET part == parts[k]
             i == k - 1
         IN  IF i < 2 \/ i >= Len(parts) - 3
             THEN DataTransferScan(parts, k + 1, st)
             ELSE IF StartsWith(part, "D=") \/ StartsWith(part, "B=")
             THEN DataTransferScan(parts, k + 1, st)
             ELSE IF IsDeviceNode(part)
             THEN DataTransferScan(parts, k + 1,
                                   [st EXCEPT !.device_path_seen = TRUE])
             ELSE IF st.device_path_seen /\ Contains(part, "/")
             THEN <<part>>
             ELSE IF ~st.device_path_seen /\ Contains(part, "/")
             THEN DataTransferScan(parts, k + 1,
                                   [st EXCEPT !.actual_path = <<part>>])
             ELSE DataTransferScan(parts, k + 1, st)

DataTransferPath(parts) ==
    DataTransferScan(parts, 1, [actual_path |-> <<>>, device_path_seen |-> FALSE])

\* the skip rules of the generic scan loop
IsSkippedToken(part) ==
    \/ StartsWith(part, "[") /\ EndsWith(part, "]")
    \/ StartsWith(part, "F=") \/ StartsWith(part, "B=") \/ StartsWith(part, "D=")
    \/ Len(part) = 1 /\ (part = "W" \/ part = "R")

\* The generic scan loop over parts[k..]; Rust's index is i = k - 1, scanned
\* when 2 <= i < len - 2.  The result is path_parts after the loop.
RECURSIVE GenericScan(_, _, _, _)
GenericScan(parts, k, path_parts, found_path_start) ==
    IF k > Len(parts) \/ (k - 1 >= 2 /\ k - 1 >= Len(parts) - 2)
    THEN path_parts
    ELSE LET part == parts[k]
         IN  IF k - 1 < 2 \/ IsSkippedToken(part)
             THEN GenericScan(parts, k + 1, path_parts, found_path_start)
             ELSE IF Contains(part, "/") \/ found_path_start
             THEN GenericScan(parts, k + 1, Append(path_parts, part), TRUE)
             ELSE GenericScan(parts, k + 1, path_parts, found_path_start)

GenericPathParts(parts) == GenericScan(parts, 1, <<>>, FALSE)

\* path_parts.join(" ").split("Err#").next()?.trim()
TruncateAtErr(path_parts) == Trim(Split(Join(path_parts, " "), "Err#")[1])

\* the "[-2]" clean-up: path.split("]").nth(1)? when the path starts with "[-"
StripFdPrefix(path) ==
    IF StartsWith(path, "[-") THEN Nth(Split(path, "]"), 1) ELSE <<path>>

\* the private/tmp conversion
NormalizeTmp(path) ==
    IF StartsWith(path, "private/tmp") THEN Replace(path, "private/tmp", "/tmp")
    ELSE IF StartsWith(path, "/private/tmp") THEN Replace(path, "/private/tmp", "/tmp")
    ELSE path

\* the result code; <<>> when one of the two ?s returns None
ResultCode(line) ==
    IF Contains(line, "Err#")
    THEN LET after == Nth(Split(line, "Err#"), 1)
         IN  IF after = <<>> THEN <<>>
             ELSE Nth(SplitWhitespace(after[1]), 0)
    ELSE <<"OK">>

\* the generic tail of parse_fs_usage_line, from the scan loop to the return
GenericEvent(line, parts, timestamp, process_name, pid, operation) ==
    LET path_parts == GenericPathParts(parts)
    IN  IF path_parts = <<>> THEN <<>>
        ELSE LET stripped == StripFdPrefix(TruncateAtErr(path_parts))
             IN  IF stripped = <<>> THEN <<>>
                 ELSE LET path == NormalizeTmp(stripped[1])
                          result == ResultCode(line)
                      IN  IF path = "" THEN <<>>
                          ELSE IF result = <<>> THEN <<>>
                          ELSE <<FsEvent(timestamp, process_name, pid, operation,
                                         path, result[1])>>

\* parse_fs_usage_line(line) -> Option<FsEvent>
parse_fs_usage_line(line) ==
    LET parts == SplitWhitespace(line)
    IN  IF Len(parts) < 4 THEN <<>>
        ELSE LET timestamp == parts[1]
                 operation == parts[2]
                 process_info == parts[Len(parts)]
                 dot_pos == RFind(process_info, ".")
             IN  IF dot_pos = 0 THEN <<>>
                 ELSE LET process_name == SubSeq(process_info, 1, dot_pos - 1)
                          pid == ParseU32(SubSeq(process_info, dot_pos + 1,
                                                 Len(process_info)))
                      IN  IF pid = <<>> THEN <<>>
                          ELSE IF IsDataTransfer(operation)
                                  /\ DataTransferPath(parts) # <<>>
                          THEN <<FsEvent(timestamp, process_name, pid[1], operation,
                                         DataTransferPath(parts)[1], "OK")>>
                          ELSE GenericEvent(line, parts, timestamp, process_name,
                                            pid[1], operation)

(***************************************************************************)
(* OperationType::matches_operation.                                       *)
(***************************************************************************)
OperationTypes ==
    {"Read", "Write", "Create", "Delete", "Move", "Access", "Metadata", "Chmod", "All"}

ReadOperations == {"read", "pread", "readv", "preadv", "RdData", "RdMeta"}

WriteOperations ==
    {"write", "pwrite", "writev", "pwritev", "WrData", "WrMeta", "ftruncate",
     "rename", "unlink", "chmod_extended"}

CreateOperations == {"open", "creat", "mkdir", "mkfifo", "mknod", "symlink", "link"}

DeleteOperations == {"unlink", "rmdir", "remove"}

MoveOperations == {"rename", "renameat"}

AccessOperations ==
    {"access", "faccessat", "stat", "stat64", "lstat", "lstat64", "fstat", "fstat64"}

MetadataOperations ==
    {"stat", "stat64", "lstat", "lstat64", "fstat", "fstat64", "getxattr",
     "setxattr", "listxattr", "removexattr", "getattrlist", "setattrlist"}

ChmodOperations == {"chmod", "chmod_extended"}

matches_operation(op_type, operation) ==
    CASE op_type = "All" -> TRUE
      [] op_type = "Read" -> operation \in ReadOperations
      [] op_type = "Write" ->
            operation \in WriteOperations \/ StartsWith(operation, "WrData[")
      [] op_type = "Create" -> operation \in CreateOperations
      [] op_type = "Delete" -> operation \in DeleteOperations
      [] op_type = "Move" -> operation \in MoveOperations
      [] op_type = "Access" -> operation \in AccessOperations
      [] op_type = "Metadata" -> operation \in MetadataOperations
      [] op_type = "Chmod" -> operation \in ChmodOperations

(***************************************************************************)
(* FsUsageConfig and the compiled glob patterns.                           *)
(***************************************************************************)
FsUsageConfig(watch_paths, watch_pids, exclude_pids, exclude_processes, operation_types, exact_path_matching) ==
    [watch_paths |-> watch_paths, watch_pids |-> watch_pids,
     exclude_pids |-> exclude_pids, exclude_processes |-> exclude_processes,
     operation_types |-> operation_types,
     exact_path_matching |-> exact_path_matching]

\* impl Default for FsUsageConfig
DefaultConfig ==
    FsUsageConfig(<<>>, <<>>, <<>>, <<"mds", "mdworker", "fseventsd">>,
                  <<"All">>, FALSE)

\* Vec::contains
VecContains(vec, x) == \E i \in 1..Len(vec) : vec[i] = x

\* glob::Pattern::new over the pattern's characters from offset i: literal
\* characters, '?', '*' and a '**' that forms a whole path component (the
\* '/' after it is part of the token; consecutive ones collapse).  The
\* patterns of the model use no character classes.
RECURSIVE PatternTokens(_, _, _)
PatternTokens(p, i, tokens) ==
    IF i > Len(p) THEN tokens
    ELSE IF Char(p, i) = "?" THEN PatternTokens(p, i + 1, Append(tokens, "AnyChar"))
    ELSE IF Char(p, i) = "*"
    THEN IF i + 1 <= Len(p) /\ Char(p, i + 1) = "*"
         THEN LET next == IF i + 2 <= Len(p) /\ Char(p, i + 2) = "/"
                          THEN i + 3 ELSE i + 2
              IN  IF Len(tokens) > 1 /\ tokens[Len(tokens)] = "AnyRecursiveSequence"
                  THEN PatternTokens(p, next, tokens)
                  ELSE PatternTokens(p, next, Append(tokens, "AnyRecursiveSequence"))
         ELSE PatternTokens(p, i + 1, Append(tokens, "AnySequence"))
    ELSE PatternTokens(p, i + 1, Append(tokens, <<Char(p, i)>>))

\* FsUsageMonitor::new: one compiled pattern per watch path
CompilePatterns(watch_paths) ==
    [k \in 1..Len(watch_paths) |-> PatternTokens(watch_paths[k], 1, <<>>)]

\* glob::Pattern::matches_from with the default MatchOptions (case sensitive,
\* no literal-separator and no leading-dot requirement): do tokens[ti..]
\* match file[fi..], the previous character being a separator or not
RECURSIVE MatchesFrom(_, _, _, _, _)
MatchesFrom(tokens, ti, file, fi, follows_separator) ==
    IF ti > Len(tokens) THEN fi > Len(file)
    ELSE IF tokens[ti] = "AnySequence"
    THEN \E n \in fi..(Len(file) + 1) :
            MatchesFrom(tokens, ti + 1, file, n,
                        IF n = fi THEN follows_separator ELSE Char(file, n - 1) = "/")
    ELSE IF tokens[ti] = "AnyRecursiveSequence"
    THEN \E n \in fi..(Len(file) + 1) :
            /\ n = fi \/ Char(file, n - 1) = "/"
            /\ MatchesFrom(tokens, ti + 1, file, n,
                           IF n = fi THEN follows_separator ELSE TRUE)
    ELSE /\ fi <= Len(file)
         /\ tokens[ti] = "AnyChar" \/ tokens[ti] = <<Char(file, fi)>>
         /\ MatchesFrom(tokens, ti + 1, file, fi + 1, Char(file, fi) = "/")

\* pattern.matches(&event.path)
PatternMatches(pattern, path) == MatchesFrom(pattern, 1, path, 1, TRUE)

(***************************************************************************)
(* should_send_event.                                                      *)
(***************************************************************************)
\* std::path::Path::file_name as a string: the last component unless the
\* path ends in "..", is empty or is the root
FileName(path) ==
    LET comps == SelectSeq(Split(path, "/"), LAMBDA c : c # "" /\ c # ".")
    IN  IF comps = <<>> \/ comps[Len(comps)] = ".." THEN <<>>
        ELSE <<comps[Len(comps)]>>

\* format!("{}/", watch_path.trim_end_matches('/'))
AbsPath(watch_path) == TrimEndMatches(watch_path, "/") \o "/"

\* format!("{}/", Path::new(watch_path).file_name()...unwrap_or(watch_path))
RelPath(watch_path) ==
    (IF FileName(watch_path) = <<>> THEN watch_path ELSE FileName(watch_path)[1])
        \o "/"

ExactPathMatch_OrGlob(path, watch_paths) ==
    \E k \in 1..Len(watch_paths) :
        \/ Contains(path, AbsPath(watch_paths[k]))
        \/ Contains(path, RelPath(watch_paths[k]))
        \/ PatternMatches(CompilePatterns(watch_paths)[k], path)

\* the exact-path loop over config.watch_paths
ExactPathMatch(path, watch_paths) ==
    \E k \in 1..Len(watch_paths) :
        \/ Contains(path, AbsPath(watch_paths[k]))
        \/ Contains(path, RelPath(watch_paths[k]))

\* the operation type check
OperationAllowed(operation, operation_types) ==
    \/ VecContains(operation_types, "All")
    \/ \E k \in 1..Len(operation_types) :
          matches_operation(operation_types[k], operation)

ExcludedPid_OrExcludedProcess(event, config) ==
    \/ VecContains(config.exclude_pids, event.pid)
    \/ VecContains(config.exclude_processes, event.process_name)

ExcludedPid_UnlessWatched(event, config) ==
    /\ VecContains(config.exclude_pids, event.pid)
    /\ ~VecContains(config.watch_pids, event.pid)

\* config.exclude_pids.contains(&event.pid)
ExcludedPid(event, config) == VecContains(config.exclude_pids, event.pid)

NoPathConstraint_UnlessExact(patterns, config) ==
    config.watch_paths = <<>> /\ patterns = <<>> /\ ~config.exact_path_matching

\* config.watch_paths.is_empty() && patterns.is_empty()
NoPathConstraint(patterns, config) == config.watch_paths = <<>> /\ patterns = <<>>

should_send_event(event, patterns, config) ==
    IF ExcludedPid(event, config) THEN FALSE
    ELSE IF config.watch_pids # <<>> /\ ~VecContains(config.watch_pids, event.pid)
    THEN FALSE
    ELSE IF ~OperationAllowed(event.operation, config.operation_types) THEN FALSE
    ELSE IF NoPathConstraint(patterns, config) THEN TRUE
    ELSE IF config.exact_path_matching /\ config.watch_paths # <<>>
    THEN ExactPathMatch(event.path, config.watch_paths)
    ELSE \E k \in 1..Len(patterns) : PatternMatches(patterns[k], event.path)

(***************************************************************************)
(* The FsUsageMonitor pipeline.                                            *)
(***************************************************************************)
VARIABLES
    is_running,   \* the shared Arc<Mutex<bool>>
    process,      \* self.process: 0 is None, c > 0 is Some(the c-th child)
    child,        \* the fs_usage processes spawned so far: state and stdout pipe
    worker,       \* the worker thread of each child: position, line held
    queue,        \* the unbounded channel
    received,     \* what the consumer has taken from the channel, in order
    dropped,      \* the monitor (its Sender and its Receiver) has been dropped
    consumer,     \* "idle", or "recv" while blocked in FsUsageMonitor::recv
    last,         \* the last start / stop / drop call and what it returned
    ncalls,       \* start / stop / drop calls made
    emitted,      \* lines the trace sources have written
    nread,        \* items the workers have read from the trace sources
    input,        \* the trace line under test (parser specification)
    output        \* what parse_fs_usage_line returned for it

monitor_vars ==
    <<is_running, process, child, worker, queue, received, dropped, consumer,
      last, ncalls, emitted, nread>>

parser_vars == <<input, output>>

vars == <<monitor_vars, parser_vars>>

\* The item of a stream on which BufRead::lines yields Err (a line that is
\* not UTF-8); every other item is Ok(text).
ReadError == "<not utf-8>"

\* What a trace source may write: a line that parses and passes the filter,
\* a descriptor-only line the parser rejects, a line of an excluded pid, and
\* a line that cannot be read.
TraceLines ==
    {"t1 open /tmp/a 0.1 vim.7",
     "t2 read F=3 0.1 vim.7",
     "t3 open /tmp/b 0.1 mds.9",
     ReadError}

\* the configuration the monitor of the model is built with
MonitorConfig == [DefaultConfig EXCEPT !.exclude_pids = <<9>>]

MonitorPatterns == CompilePatterns(MonitorConfig.watch_paths)

NoCall == [op |-> "none", res |-> "ok", was_running |-> FALSE, held |-> 0]

NoInput == [kind |-> "none"]

NoOutput == [done |-> FALSE, event |-> <<>>]

\* FsUsageMonitor::new
MonitorInit ==
    /\ is_running = FALSE
    /\ process = 0
    /\ child = <<>>
    /\ worker = <<>>
    /\ queue = <<>>
    /\ received = <<>>
    /\ dropped = FALSE
    /\ consumer = "idle"
    /\ last = NoCall
    /\ ncalls = 0
    /\ emitted = 0
    /\ nread = 0

Init == MonitorInit /\ input = NoInput /\ output = NoOutput

\* a worker thread that has been spawned and has not returned
Alive(w) == worker[w].pc # "done"

\* the Senders of the channel: the monitor's own and one per live worker
Senders == (IF dropped THEN 0 ELSE 1) + Cardinality({w \in DOMAIN worker : Alive(w)})

\* the owner of the monitor can make a call: the monitor exists and is not
\* borrowed by a blocked recv
CanCall == ~dropped /\ consumer = "idle" /\ ncalls < MaxCalls

\* a call and its result, with the flag and the handle it found
Call(op, res) ==
    [op |-> op, res |-> res, was_running |-> is_running, held |-> process]

\* (mutant) start without its check of the flag
AlreadyRunning_Never == FALSE

\* the check that opens start
AlreadyRunning == is_running

\* what cmd.spawn() can come to.  The command is built with
\* stdout(Stdio::piped()), so a spawned child always has its stdout handle
\* and child.stdout.take() never yields None.
StartOutcomes == {"ok", "spawn_err"}

\* FsUsageMonitor::start
Start(outcome) ==
    /\ CanCall
    /\ ncalls' = ncalls + 1
    /\ IF AlreadyRunning
       THEN /\ last' = Call("start", "already_running")
            /\ UNCHANGED <<is_running, process, child, worker>>
       ELSE IF outcome = "spawn_err"
       THEN /\ last' = Call("start", "spawn_err")
            /\ UNCHANGED <<is_running, process, child, worker>>
       ELSE /\ last' = Call("start", "ok")
            /\ is_running' = TRUE
            /\ child' = Append(child, [state |-> "running", pipe |-> <<>>])
            /\ process' = Len(child) + 1
            /\ worker' = Append(worker, [pc |-> "read", line |-> <<>>, seq |-> 0])
    /\ UNCHANGED <<queue, received, dropped, consumer, emitted,
                   nread, parser_vars>>

\* what process.kill() and process.wait() can come to
StopOutcomes == {"ok", "kill_err", "wait_err"}

\* (mutant) stop that never clears the handle
HandleAfterStop_Kept(held, outcome) == held

\* (mutant) stop that clears the handle only once kill and wait succeeded
HandleAfterStop_OnSuccess(held, outcome) == IF outcome = "ok" THEN 0 ELSE held

\* self.process after stop's self.process.take()
HandleAfterStop(held, outcome) == 0

\* the state of the held child after kill() and wait(): reaped when both
\* succeed, killed but not reaped when wait fails, as it was when kill fails
ChildAfterStop(state, outcome) ==
    CASE outcome = "ok" -> "reaped"
      [] outcome = "wait_err" -> "exited"
      [] outcome = "kill_err" -> state

\* the body of FsUsageMonitor::stop, called as op ("stop", or "drop" from Drop)
StopBody(op, outcome) ==
    /\ is_running' = FALSE
    /\ process' = HandleAfterStop(process, outcome)
    /\ IF process # 0
       THEN /\ child' = [child EXCEPT ![process].state = ChildAfterStop(@, outcome)]
            /\ last' = Call(op, outcome)
       ELSE /\ child' = child
            /\ last' = Call(op, "ok")

\* FsUsageMonitor::stop
Stop(outcome) ==
    /\ CanCall
    /\ ncalls' = ncalls + 1
    /\ StopBody("stop", outcome)
    /\ UNCHANGED <<worker, queue, received, dropped, consumer,
                   emitted, nread, parser_vars>>

\* (mutant) a drop that does not call stop
DropBody_NoStop(outcome) ==
    /\ last' = Call("drop", "ok")
    /\ UNCHANGED <<is_running, process, child>>

\* the body of drop: let _ = self.stop()
DropBody(outcome) == StopBody("drop", outcome)

\* impl Drop for FsUsageMonitor: stop, its result discarded, then the fields
\* (the monitor's Sender and Receiver among them) are dropped
Drop(outcome) ==
    /\ CanCall
    /\ ncalls' = ncalls + 1
    /\ DropBody(outcome)
    /\ dropped' = TRUE
    /\ UNCHANGED <<worker, queue, received, consumer, emitted,
                   nread, parser_vars>>

\* a trace source writes a line to its stdout
Emit(c, text) ==
    /\ child[c].state = "running"
    /\ emitted < MaxLines
    /\ emitted' = emitted + 1
    /\ child' = [child EXCEPT ![c].pipe = Append(@, text)]
    /\ UNCHANGED <<is_running, process, worker, queue, received, dropped,
                   consumer, last, ncalls, nread, parser_vars>>

\* a trace source exits of its own accord (fs_usage without root does)
ChildExit(c) ==
    /\ child[c].state = "running"
    /\ child' = [child EXCEPT ![c].state = "exited"]
    /\ UNCHANGED <<is_running, process, worker, queue, received, dropped,
                   consumer, last, ncalls, emitted, nread,
                   parser_vars>>

\* the worker's reader.lines().next(): the next item of the pipe, or the end
\* of the stream once the child is gone and the pipe is drained; it blocks
\* while the pipe is empty and the child runs
WorkerRead(w) ==
    /\ worker[w].pc = "read"
    /\ IF child[w].pipe # <<>>
       THEN /\ worker' = [worker EXCEPT ![w] = [pc |-> "check",
                                                line |-> <<Head(child[w].pipe)>>,
                                                seq |-> nread + 1]]
            /\ child' = [child EXCEPT ![w].pipe = Tail(@)]
            /\ nread' = nread + 1
       ELSE /\ child[w].state # "running"
            /\ worker' = [worker EXCEPT ![w].pc = "exit"]
            /\ UNCHANGED <<child, nread>>
    /\ UNCHANGED <<is_running, process, queue, received, dropped, consumer, last, ncalls, emitted, parser_vars>>

PcAfterCheck_Ignored(flag) == "handle"

\* if !*is_running.lock().unwrap() { break; }
PcAfterCheck(flag) == IF flag THEN "handle" ELSE "exit"

\* the worker's test of the flag at the top of the loop body
WorkerCheck(w) ==
    /\ worker[w].pc = "check"
    /\ worker' = [worker EXCEPT ![w].pc = PcAfterCheck(is_running)]
    /\ UNCHANGED <<is_running, process, child, queue, received, dropped,
                   consumer, last, ncalls, emitted, nread,
                   parser_vars>>

\* parse_fs_usage_line and should_send_event as the worker applies them to
\* an item it read, tabulated over the lines the trace sources can write:
\* <<event>> when the item is a line that parses and passes the filter
AcceptedEvents ==
    [item \in TraceLines |->
        IF item = ReadError THEN <<>>
        ELSE LET event == parse_fs_usage_line(item)
             IN  IF event # <<>>
                    /\ should_send_event(event[1], MonitorPatterns, MonitorConfig)
                 THEN event
                 ELSE <<>>]

\* the event the worker publishes for the item it holds, if any
Accepted(item) == AcceptedEvents[item]

\* the worker's sender.send(event): Err once no Receiver is left
SendFails == dropped

\* where the worker goes after its match on the item: a read error ends the
\* loop, and so does a failed send; otherwise it reads the next item
PcAfterHandle(item) ==
    IF item = ReadError THEN "exit"
    ELSE IF Accepted(item) = <<>> THEN "read"
    ELSE IF SendFails THEN "exit"
    ELSE "read"

\* the channel after the worker's match on the item it read as number seq
QueueAfterHandle(item, seq) ==
    IF Accepted(item) # <<>> /\ ~SendFails
    THEN Append(queue, [event |-> Accepted(item)[1], line |-> item, seq |-> seq])
    ELSE queue

\* the worker's match on the item: a line is parsed, filtered and sent
WorkerHandle(w) ==
    /\ worker[w].pc = "handle"
    /\ worker' = [worker EXCEPT ![w].pc = PcAfterHandle(worker[w].line[1]),
                                ![w].line = <<>>]
    /\ queue' = QueueAfterHandle(worker[w].line[1], worker[w].seq)
    /\ UNCHANGED <<is_running, process, child, received, dropped, consumer,
                   last, ncalls, emitted, nread, parser_vars>>

FlagAfterWorker_Kept(flag) == flag

\* the flag a worker leaves behind when its loop has ended
FlagAfterWorker(flag) == FALSE

\* the worker's last statement, then the thread returns
WorkerExit(w) ==
    /\ worker[w].pc = "exit"
    /\ is_running' = FlagAfterWorker(is_running)
    /\ worker' = [worker EXCEPT ![w].pc = "done"]
    /\ UNCHANGED <<process, child, queue, received, dropped, consumer, last, ncalls, emitted, nread, parser_vars>>

WorkerStep(w) == WorkerRead(w) \/ WorkerCheck(w) \/ WorkerHandle(w) \/ WorkerExit(w)

\* FsUsageMonitor::try_recv: Some(event) when one is queued, None otherwise
TryRecv ==
    /\ ~dropped
    /\ consumer = "idle"
    /\ IF queue # <<>>
       THEN /\ received' = Append(received, Head(queue))
            /\ queue' = Tail(queue)
       ELSE UNCHANGED <<queue, received>>
    /\ UNCHANGED <<is_running, process, child, worker, dropped, consumer, last,
                   ncalls, emitted, nread, parser_vars>>

\* FsUsageMonitor::recv is entered
RecvCall ==
    /\ ~dropped
    /\ consumer = "idle"
    /\ consumer' = "recv"
    /\ UNCHANGED <<is_running, process, child, worker, queue, received, dropped,
                   last, ncalls, emitted, nread, parser_vars>>

\* FsUsageMonitor::recv returns: Ok(event) when one is queued, Err when the
\* queue is empty and no Sender is left; until then it blocks
RecvReturn ==
    /\ consumer = "recv"
    /\ queue # <<>> \/ Senders = 0
    /\ consumer' = "idle"
    /\ IF queue # <<>>
       THEN /\ received' = Append(received, Head(queue))
            /\ queue' = Tail(queue)
       ELSE UNCHANGED <<queue, received>>
    /\ UNCHANGED <<is_running, process, child, worker, dropped, last, ncalls,
                   emitted, nread, parser_vars>>

Next ==
    \/ \E outcome \in StartOutcomes : Start(outcome)
    \/ \E outcome \in StopOutcomes : Stop(outcome)
    \/ \E outcome \in StopOutcomes : Drop(outcome)
    \/ \E c \in DOMAIN child : \E text \in TraceLines : Emit(c, text)
    \/ \E c \in DOMAIN child : ChildExit(c)
    \/ \E w \in DOMAIN worker : WorkerRead(w)
    \/ \E w \in DOMAIN worker : WorkerCheck(w)
    \/ \E w \in DOMAIN worker : WorkerHandle(w)
    \/ \E w \in DOMAIN worker : WorkerExit(w)
    \/ TryRecv
    \/ RecvCall
    \/ RecvReturn

Spec == Init /\ [][Next]_vars

\* Threads are scheduled: a worker that can take a step eventually takes it,
\* and a blocked recv returns once it can.  The owner's calls and the trace
\* sources are not forced.
FairSpec ==
    /\ Spec
    /\ \A w \in 1..MaxCalls : WF_vars(w \in DOMAIN worker /\ WorkerStep(w))
    /\ WF_vars(RecvReturn)

(***************************************************************************)
(* The parser on its own: a trace line is drawn, parse_fs_usage_line is    *)
(* applied to it.                                                          *)
(***************************************************************************)
\* a number as fs_usage prints it
RECURSIVE ToDecimal(_)
ToDecimal(n) ==
    IF n < 10 THEN Digits[n + 1] ELSE ToDecimal(n \div 10) \o Digits[(n % 10) + 1]

\* Lines of the generic layout: timestamp, mnemonic, metadata tokens, one
\* path token, duration, process.pid, separated by runs of blanks.  The
\* path token is an optional "[-N]" descriptor prefix, an optional
\* private/tmp mount prefix and the rest of the path.
GenericOperations == {"fstatat64", "WrMeta[A]"}

MetadataTokens == {<<>>, <<"[", "2]">>, <<"F=86">>, <<"[3]", "B=0xea">>}

PathTokens ==
    [fd : {"", "[-2]"},
     prefix : {"", "private/tmp", "/private/tmp"},
     rest : {"/test123.txt", "/x/private/tmp/y", "/dir/a]b.txt"}]

ProcessTokens ==
    {[name |-> "touch", pid |-> 3523509],
     [name |-> "at.obdev.littlesnitch.networkex", pid |-> 3515250],
     [name |-> "sh", pid |-> 7]}

Separators == {" ", "   "}

GenericInputs ==
    [kind : {"generic"}, ts : {"23:52:52.781431"}, op : GenericOperations,
     metas : MetadataTokens, path : PathTokens, dur : {"0.001226"},
     proc : ProcessTokens, sep : Separators]

\* Lines of the generic layout that report a failure: an "Err#N" token
\* follows the path.
FailedInputs ==
    [kind : {"failed"}, ts : {"23:52:52.781431"}, op : GenericOperations,
     metas : {<<>>, <<"F=86">>}, path : PathTokens, err : {<<"Err#2">>, <<"Err#13">>},
     dur : {"0.001226"}, proc : ProcessTokens, sep : {" "}]

\* Lines of the data-transfer layout: timestamp, WrData/RdData mnemonic,
\* D= and B= tokens, possibly a '/'-bearing token, possibly a device node,
\* the path token, possibly further tokens, duration, possibly the
\* scheduled-out flag, process.pid.
DataOperations == {"WrData[A]", "RdData"}

DataInputs ==
    [kind : {"data"}, ts : {"21:35:08.701508"}, op : DataOperations,
     metas : {<<"D=0x1b3f3978", "B=0x1000">>},
     before : {<<>>, <<"disk/0">>},
     device : {<<>>, <<"/dev/disk3s5">>},
     path : {"test/test/fs_direct_test.txt", "private/tmp/t.txt", "/private/tmp/a/private/tmp"},
     after : {<<>>, <<"b/c.txt">>},
     err : {<<>>, <<"Err#5">>},
     dur : {"0.000303"}, flag : {<<>>, <<"W">>},
     proc : {[name |-> "bash", pid |-> 424229]}, sep : {" ", "   "}]

\* Lines of the generic layout whose path holds blanks: the token that starts
\* the path is followed by further tokens of the path, among them ones that
\* look like a bracketed token, a F=/B=/D= token or a lone W or R.
PathWords ==
    {<<"/tmp/my", "file.txt">>, <<"/tmp/my", "[1]", "file.txt">>,
     <<"/Users/x/Plan", "W", "draft.md">>, <<"/tmp/a", "F=1">>,
     <<"/Users/x/R", "D=2", "b/notes.txt">>}

SpacedInputs ==
    [kind : {"spaced"}, ts : {"23:52:52.781431"}, op : GenericOperations,
     metas : {<<>>, <<"F=86">>}, words : PathWords, dur : {"0.001226"},
     proc : ProcessTokens, sep : Separators]

\* Lines of the data-transfer layout whose only '/'-bearing token is the
\* device node.
DeviceInputs ==
    [kind : {"device"}, ts : {"21:35:08.701508"}, op : DataOperations,
     metas : {<<"D=0x1b3f3978", "B=0x1000">>}, device : {"/dev/disk3s5"},
     dur : {"0.000303"}, flag : {<<>>, <<"W">>},
     proc : {[name |-> "bash", pid |-> 424229]}, sep : Separators]

\* process.pid as fs_usage prints it
ProcessToken(proc) == proc.name \o "." \o ToDecimal(proc.pid)

\* the tokens of an input line
Tokens(in) ==
    CASE in.kind = "generic" ->
            <<in.ts, in.op>> \o in.metas
              \o <<in.path.fd \o in.path.prefix \o in.path.rest, in.dur,
                   ProcessToken(in.proc)>>
      [] in.kind = "failed" ->
            <<in.ts, in.op>> \o in.metas
              \o <<in.path.fd \o in.path.prefix \o in.path.rest>> \o in.err
              \o <<in.dur, ProcessToken(in.proc)>>
      [] in.kind = "data" ->
            <<in.ts, in.op>> \o in.metas \o in.before \o in.device
              \o <<in.path>> \o in.after \o in.err \o <<in.dur>> \o in.flag
              \o <<ProcessToken(in.proc)>>
      [] in.kind = "spaced" ->
            <<in.ts, in.op>> \o in.metas \o in.words
              \o <<in.dur, ProcessToken(in.proc)>>
      [] in.kind = "device" ->
            <<in.ts, in.op>> \o in.metas \o <<in.device, in.dur>> \o in.flag
              \o <<ProcessToken(in.proc)>>

\* the text of an input line
Render(in) == Join(Tokens(in), in.sep)

LineInputs ==
    GenericInputs \cup FailedInputs \cup DataInputs \cup SpacedInputs
      \cup DeviceInputs

ParseInit == MonitorInit /\ input \in LineInputs /\ output = NoOutput

\* parse_fs_usage_line is called on the line
Parse ==
    /\ ~output.done
    /\ output' = [done |-> TRUE, event |-> parse_fs_usage_line(Render(input))]
    /\ UNCHANGED <<input, monitor_vars>>

ParseNext == Parse

ParseSpec == ParseInit /\ [][ParseNext]_vars

(***************************************************************************)
(* The filter on its own: an event and a configuration are drawn,          *)
(* FsUsageMonitor::new compiles the patterns and should_send_event is      *)
(* applied.                                                                *)
(***************************************************************************)
WritesOnly_WithReads == <<"Read", "Write", "Create", "Delete", "Move">>

\* FsUsageMonitorBuilder::watch_writes_only
WritesOnly == <<"Write", "Create", "Delete", "Move">>

\* FsUsageMonitorBuilder::watch_reads_only
ReadsOnly == <<"Read">>

\* FsUsageMonitorBuilder::exclude_metadata
ExcludeMetadata == <<"Read", "Write", "Create", "Delete", "Move">>

FilterPids == {7, 9}

FilterOperations ==
    ReadOperations \cup {"write", "WrData", "WrData[A]", "WrData[AT3]", "stat64"}

FilterPaths ==
    {"/Users/john/Documents/file.txt", "/Users/john/Downloads/file.txt",
     "/tmp/test.txt", "/tmp/a/b/c/test.txt", "/var/tmp/test.txt",
     "/tmp/a", "/tmp/a/b", "/tmp/proj/f.txt", "proj/f.txt", "/tmp/project"}

\* who reported the event, when and with what result
EventOrigins ==
    {[timestamp |-> "21:35:08.701508", process_name |-> "bash", result |-> "OK"],
     [timestamp |-> "23:52:52.781431", process_name |-> "mds", result |-> "2"]}

FilterEvents ==
    {FsEvent(origin.timestamp, origin.process_name, pid, operation, path,
             origin.result) :
        origin \in EventOrigins, pid \in FilterPids,
        operation \in FilterOperations, path \in FilterPaths}

WatchPathLists ==
    {<<>>, <<"/tmp/*">>, <<"/Users/*/Documents/*.txt">>, <<"/tmp/**/*">>,
     <<"/tmp/proj">>, <<"/var/log/", "/tmp/proj/">>}

\* exclude_processes as new() leaves it, and emptied
ExcludeProcessLists == {DefaultConfig.exclude_processes, <<>>}

FilterConfigs ==
    {FsUsageConfig(watch_paths, watch_pids, exclude_pids, exclude_processes,
                   operation_types, exact) :
        watch_paths \in WatchPathLists,
        exclude_processes \in ExcludeProcessLists,
        watch_pids \in {<<>>, <<7>>},
        exclude_pids \in {<<>>, <<7>>},
        operation_types \in {DefaultConfig.operation_types, WritesOnly, ReadsOnly},
        exact \in BOOLEAN}

FilterInputs == [kind : {"filter"}, event : FilterEvents, config : FilterConfigs]

FilterInit == MonitorInit /\ input \in FilterInputs /\ output = NoOutput

\* the worker's filter step: the event goes on when should_send_event says so
Filter ==
    /\ ~output.done
    /\ output' =
         [done |-> TRUE,
          event |-> IF should_send_event(input.event,
                                         CompilePatterns(input.config.watch_paths),
                                         input.config)
                    THEN <<input.event>> ELSE <<>>]
    /\ UNCHANGED <<input, monitor_vars>>

FilterNext == Filter

FilterSpec == FilterInit /\ [][FilterNext]_vars

(***************************************************************************)
(* FsUsageMonitorBuilder: input is the sequence of calls made on the       *)
(* builder, output the configuration it holds.                             *)
(***************************************************************************)
BuilderPaths == {"/tmp/*", "/var/log"}

BuilderPids == {7, 9}

BuilderProcesses == {"Finder"}

BuilderOperationLists == {<<"Chmod">>, <<"Read", "Access">>}

\* FsUsageMonitorBuilder::new
BuilderInit ==
    /\ MonitorInit
    /\ input = <<>>
    /\ output = [built |-> FALSE, config |-> DefaultConfig]

\* a builder method is called with args and leaves the builder holding config
BuilderCall(method, args, config) ==
    /\ ~output.built
    /\ Len(input) < MaxBuilderCalls
    /\ input' = Append(input, [method |-> method, args |-> args])
    /\ output' = [output EXCEPT !.config = config]
    /\ UNCHANGED monitor_vars

WatchPath ==
    \E p \in BuilderPaths :
        BuilderCall("watch_path", <<p>>,
            [output.config EXCEPT !.watch_paths = Append(@, p)])

WatchPaths ==
    \E p, q \in BuilderPaths :
        BuilderCall("watch_paths", <<p, q>>,
            [output.config EXCEPT !.watch_paths = @ \o <<p, q>>])

WatchPid ==
    \E pid \in BuilderPids :
        BuilderCall("watch_pid", <<pid>>,
            [output.config EXCEPT !.watch_pids = Append(@, pid)])

WatchPids ==
    BuilderCall("watch_pids", <<7, 9>>,
        [output.config EXCEPT !.watch_pids = @ \o <<7, 9>>])

ExcludePid ==
    \E pid \in BuilderPids :
        BuilderCall("exclude_pid", <<pid>>,
            [output.config EXCEPT !.exclude_pids = Append(@, pid)])

ExcludePids ==
    BuilderCall("exclude_pids", <<7, 9>>,
        [output.config EXCEPT !.exclude_pids = @ \o <<7, 9>>])

ExcludeProcess ==
    \E name \in BuilderProcesses :
        BuilderCall("exclude_process", <<name>>,
            [output.config EXCEPT !.exclude_processes = Append(@, name)])

ExcludeProcesses ==
    \E name \in BuilderProcesses :
        BuilderCall("exclude_processes", <<name, "mds">>,
            [output.config EXCEPT !.exclude_processes = @ \o <<name, "mds">>])

SelectOperations_Extend(current, operations) == current \o operations

\* self.config.operation_types = <the operations of the call>
SelectOperations(current, operations) == operations

WatchOperations ==
    \E operations \in BuilderOperationLists :
        BuilderCall("watch_operations", operations,
            [output.config EXCEPT !.operation_types = SelectOperations(@, operations)])

WatchWritesOnly ==
    BuilderCall("watch_writes_only", WritesOnly,
        [output.config EXCEPT !.operation_types = SelectOperations(@, WritesOnly)])

WatchReadsOnly ==
    BuilderCall("watch_reads_only", ReadsOnly,
        [output.config EXCEPT !.operation_types = SelectOperations(@, ReadsOnly)])

WatchExcludingMetadata ==
    BuilderCall("exclude_metadata", ExcludeMetadata,
        [output.config EXCEPT !.operation_types = SelectOperations(@, ExcludeMetadata)])

\* FsUsageMonitorBuilder::build: the configuration goes to FsUsageMonitor::new
Build ==
    /\ ~output.built
    /\ output' = [output EXCEPT !.built = TRUE]
    /\ UNCHANGED <<input, monitor_vars>>

BuilderNext ==
    \/ WatchPath \/ WatchPaths \/ WatchPid \/ WatchPids
    \/ ExcludePid \/ ExcludePids \/ ExcludeProcess \/ ExcludeProcesses
    \/ WatchOperations \/ WatchWritesOnly \/ WatchReadsOnly
    \/ WatchExcludingMetadata \/ Build

BuilderSpec == BuilderInit /\ [][BuilderNext]_vars

(***************************************************************************)
(* Properties of the pipeline.                                             *)
(***************************************************************************)
\* the step is a call of op by the owner of the monitor
IsCall(op) == ncalls' = ncalls + 1 /\ last'.op = op

\* C1: events reach the consumer in the order their lines were read: the
\* events received carry strictly increasing read numbers (so none twice),
\* and each is the event of a line that parses and passes the filter.
C1_DeliveredInReadOrder ==
    /\ \A i, j \in DOMAIN received : i < j => received[i].seq < received[j].seq
    /\ \A i \in DOMAIN received :
          /\ received[i].seq \in 1..nread
          /\ Accepted(received[i].line) = <<received[i].event>>

\* C2: a start made while the flag is set returns the already-running error
\* and spawns no child, starts no worker and leaves flag, handle and queue.
C2_StartWhileRunningRejected ==
    [][(IsCall("start") /\ is_running) =>
          /\ last'.res = "already_running"
          /\ UNCHANGED <<is_running, process, child, worker, queue>>]_vars

\* C2 witness: a start has just been rejected on a running pipeline
C2_Witness ==
    last.op = "start" /\ last.res = "already_running" /\ is_running /\ process # 0

\* no start has succeeded yet
NeverStarted == worker = <<>>

\* C3: a stop that follows a stop, and a stop on a never-started pipeline,
\* returns Ok, finds no handle (so kills nothing) and leaves the flag false,
\* the handle empty and every child as it was.
C3_StopIdempotent ==
    [][(IsCall("stop") /\ (last.op = "stop" \/ NeverStarted)) =>
          /\ last'.res = "ok"
          /\ last'.held = 0
          /\ ~is_running' /\ process' = 0
          /\ UNCHANGED <<is_running, process, child>>]_vars

\* C3 witness: start, a stop that killed and reaped the child, a second stop
C3_Witness ==
    /\ ncalls = 3 /\ last.op = "stop" /\ last.res = "ok" /\ last.held = 0
    /\ Len(child) = 1 /\ child[1].state = "reaped"

\* C4: once a start has set the flag, only a stop (or the drop's stop) or the
\* exit of the worker of that run clears it.
C4_FlagClearedOnlyByStopOrOwnWorker ==
    [][(is_running /\ ~is_running') =>
          \/ IsCall("stop") \/ IsCall("drop")
          \/ worker[process].pc = "exit" /\ worker'[process].pc = "done"]_vars

\* C5: at most one worker thread is alive at any time, and exactly one while
\* the flag is set.
C5_OneWorker ==
    /\ Cardinality({w \in DOMAIN worker : Alive(w)}) <= 1
    /\ is_running => Cardinality({w \in DOMAIN worker : Alive(w)}) = 1

\* every worker that was started has returned, and at least one was
WorkersTerminated ==
    /\ \E w \in DOMAIN worker : worker[w].pc = "done"
    /\ \A w \in DOMAIN worker : ~Alive(w)

\* C6: a recv blocked on a drained queue whose workers have all returned
\* eventually returns (with the closed signal).
C6_EndOfStreamObserved ==
    (consumer = "recv" /\ queue = <<>> /\ WorkersTerminated) ~> (consumer = "idle")

\* the monitor was dropped while its flag was set
DroppedRunning == last.op = "drop" /\ last.was_running

\* C7: a drop in the Running state clears the flag, kills and reaps the held
\* child, and the worker of that child eventually returns.
C7_DropStopsPipeline ==
    /\ [](DroppedRunning =>
            /\ ~is_running /\ process = 0
            /\ child[last.held].state = "reaped")
    /\ DroppedRunning ~> (last.held # 0 /\ worker[last.held].pc = "done")

\* C7 as amended: a drop in the Running state clears the flag and gives up
\* the handle; the child is reaped when kill and wait succeed, and the worker
\* of that child eventually returns when the kill succeeded.
C7_DropStopsPipelineIfKilled ==
    /\ [](DroppedRunning =>
            /\ ~is_running /\ process = 0
            /\ last.res = "ok" => child[last.held].state = "reaped"
            /\ last.res = "wait_err" => child[last.held].state = "exited")
    /\ (DroppedRunning /\ last.res # "kill_err")
          ~> (last.held # 0 /\ worker[last.held].pc = "done")

\* C7 witness: dropped while running, child reaped, its worker returned
C7_Witness ==
    /\ DroppedRunning /\ last.res = "ok"
    /\ child[last.held].state = "reaped" /\ worker[last.held].pc = "done"

StopErrors == {"kill_err", "wait_err"}

\* C8: a stop that returns a kill or wait error has cleared the flag and the
\* handle; the stop after it returns Ok and the start after it is not
\* refused as already running.
C8_FailedStopStillStops ==
    [][/\ (IsCall("stop") /\ last'.res \in StopErrors) =>
              (~is_running' /\ process' = 0)
       /\ (last.op = "stop" /\ last.res \in StopErrors /\ IsCall("stop")) =>
              last'.res = "ok"
       /\ (last.op = "stop" /\ last.res \in StopErrors /\ IsCall("start")) =>
              last'.res # "already_running"]_vars

\* C8 witness: a stop has just failed to kill the child it held
C8_Witness ==
    /\ last.op = "stop" /\ last.res = "kill_err" /\ last.held # 0
    /\ child[last.held].state = "running"

\* C9: a start that fails to spawn the subprocess (start cannot fail to
\* capture the output of one it spawned) leaves the flag false, starts no
\* worker and leaves no subprocess handle held.
C9_FailedStartHoldsNothing ==
    [][(IsCall("start") /\ last'.res = "spawn_err") =>
          /\ ~is_running'
          /\ worker' = worker
          /\ process' = 0]_vars

(***************************************************************************)
(* Properties of the parser.                                               *)
(***************************************************************************)
\* the path the generic layout's path token stands for: the descriptor
\* prefix gone, a leading mount prefix rewritten to /tmp, the rest as it is
ClaimedPath(path) == (IF path.prefix = "" THEN "" ELSE "/tmp") \o path.rest

\* C10: for a line of the generic layout parse returns an event with the
\* line's timestamp, mnemonic, process name and pid, and with the path token
\* stripped of its "[-N]" prefix and its leading private/tmp rewritten.
C10_GenericLineRecovered ==
    (output.done /\ input.kind = "generic") =>
        /\ output.event # <<>>
        /\ output.event[1].timestamp = input.ts
        /\ output.event[1].operation = input.op
        /\ output.event[1].process_name = input.proc.name
        /\ output.event[1].pid = input.proc.pid
        /\ output.event[1].path = ClaimedPath(input.path)

\* the tokens of a data-transfer line that follow its device node and lie
\* before the final three tokens
ScannedAfterDevice(in) ==
    LET tail == <<in.path>> \o in.after \o in.err \o <<in.dur>> \o in.flag
                  \o <<ProcessToken(in.proc)>>
    IN  SubSeq(tail, 1, Len(tail) - 3)

\* the '/'-bearing ones among them
PathsAfterDevice(in) ==
    SelectSeq(ScannedAfterDevice(in), LAMBDA t : Contains(t, "/"))

\* a data-transfer line whose device node is followed by a '/'-bearing token
DeviceThenPath(in) ==
    in.kind = "data" /\ in.device # <<>> /\ PathsAfterDevice(in) # <<>>

ClaimedResult(in) ==
    IF in.kind \in {"generic", "spaced", "device"} THEN "OK"
    ELSE IF in.err = <<>> THEN "OK"
    ELSE SubSeq(in.err[1], Len("Err#") + 1, Len(in.err[1]))

\* C12: every event parse returns, from either variant, has result "OK"
\* when the line has no "Err#" and otherwise the token that follows "Err#".
C12_ResultCode ==
    (output.done /\ output.event # <<>>) =>
        output.event[1].result = ClaimedResult(input)

\* the path parse extracts from a line before the private/tmp rewrite: the
\* data-transfer token, or the accumulated tokens cut at "Err#" and stripped
\* of the descriptor prefix
ExtractedPath(text) ==
    LET parts == SplitWhitespace(text)
    IN  IF IsDataTransfer(parts[2]) /\ DataTransferPath(parts) # <<>>
        THEN DataTransferPath(parts)[1]
        ELSE StripFdPrefix(TruncateAtErr(GenericPathParts(parts)))[1]

\* a path with only its leading private/tmp or /private/tmp made /tmp
RewriteLeading(path) ==
    IF StartsWith(path, "private/tmp")
    THEN "/tmp" \o SubSeq(path, Len("private/tmp") + 1, Len(path))
    ELSE IF StartsWith(path, "/private/tmp")
    THEN "/tmp" \o SubSeq(path, Len("/private/tmp") + 1, Len(path))
    ELSE path

\* C13: the path of every event parse returns is the extracted path with a
\* leading private/tmp or /private/tmp replaced by /tmp and nothing else
\* changed, so it never starts with private/tmp or /private/tmp.
C13_OnlyLeadingPrefixRewritten ==
    (output.done /\ output.event # <<>>) =>
        /\ output.event[1].path = RewriteLeading(ExtractedPath(Render(input)))
        /\ ~StartsWith(output.event[1].path, "private/tmp")
        /\ ~StartsWith(output.event[1].path, "/private/tmp")

(***************************************************************************)
(* Properties of the filter.                                               *)
(***************************************************************************)
Filtered == output.done /\ input.kind = "filter"

EventAccepted == output.event # <<>>

\* C14: an event whose pid is in exclude_pids is rejected whatever else is
\* configured (the pid also watched, All selected, no watch path, a matching
\* pattern), and with watch_pids non-empty an event whose pid is not in it
\* is rejected.
C14_PidShortCircuit ==
    Filtered =>
        /\ VecContains(input.config.exclude_pids, input.event.pid) => ~EventAccepted
        /\ (/\ input.config.watch_pids # <<>>
            /\ ~VecContains(input.config.watch_pids, input.event.pid)) => ~EventAccepted

\* C14 witness: an event of a pid both excluded and watched, with All
\* selected and no watch path, has been rejected
C14_Witness ==
    /\ Filtered /\ ~EventAccepted
    /\ VecContains(input.config.exclude_pids, input.event.pid)
    /\ VecContains(input.config.watch_pids, input.event.pid)
    /\ VecContains(input.config.operation_types, "All")
    /\ input.config.watch_paths = <<>>

\* the event's pid is not excluded and is watched when any pid is
PassedPidChecks ==
    /\ ~VecContains(input.config.exclude_pids, input.event.pid)
    /\ input.config.watch_pids = <<>>
         \/ VecContains(input.config.watch_pids, input.event.pid)

\* one of the selected categories is All or matches the event's mnemonic
PassedCategoryCheck ==
    \E k \in 1..Len(input.config.operation_types) :
        matches_operation(input.config.operation_types[k], input.event.operation)

\* the configuration the builder starts from, whatever the watch paths
IsDefaultConfig == input.config = DefaultConfig

\* C15: with no watch path an event that passed the pid and category checks
\* is accepted whatever its path and whatever exact_path_matching is; the
\* default configuration accepts every event.
C15_NoPathsAcceptsAll ==
    Filtered =>
        /\ (input.config.watch_paths = <<>> /\ PassedPidChecks /\ PassedCategoryCheck)
              => EventAccepted
        /\ IsDefaultConfig => EventAccepted

\* C15 witness: an event has been accepted in exact-path mode with no watch
\* path and categories that do not include All
C15_Witness ==
    /\ Filtered /\ EventAccepted
    /\ input.config.watch_paths = <<>> /\ input.config.exact_path_matching
    /\ input.config.operation_types = WritesOnly

\* the final path component of a watch path: its last non-empty segment
FinalComponent(w) ==
    LET segs == SelectSeq(Split(w, "/"), LAMBDA c : c # "")
    IN  segs[Len(segs)]

\* the two containment forms of a watch path: the path without its trailing
\* separators plus '/', and its final component plus '/'
ContainsWatchPath(path, w) ==
    \/ Contains(path, TrimEndMatches(w, "/") \o "/")
    \/ Contains(path, FinalComponent(w) \o "/")

ExactMode == input.config.exact_path_matching /\ input.config.watch_paths # <<>>

\* the event's path matches one of the compiled glob patterns
MatchesSomePattern ==
    \E k \in 1..Len(input.config.watch_paths) :
        PatternMatches(CompilePatterns(input.config.watch_paths)[k], input.event.path)

\* C16: in exact-path mode with watch paths, an event that passed the pid
\* and category checks is accepted exactly when its path contains one of the
\* two containment forms of some watch path; glob patterns play no part.
C16_ExactPathContainment ==
    (Filtered /\ ExactMode /\ PassedPidChecks /\ PassedCategoryCheck) =>
        (EventAccepted <=>
            \E k \in 1..Len(input.config.watch_paths) :
                ContainsWatchPath(input.event.path, input.config.watch_paths[k]))

\* C16 witness: in exact-path mode an event whose path matches the glob
\* pattern but contains neither form has been rejected
C16_Witness ==
    /\ Filtered /\ ExactMode /\ PassedPidChecks /\ PassedCategoryCheck
    /\ MatchesSomePattern /\ ~EventAccepted

\* C16 second witness: an event accepted through the final-component form
C16_RelativeWitness ==
    /\ Filtered /\ ExactMode /\ EventAccepted
    /\ input.event.path = "proj/f.txt"

\* the verdicts the glob rule gives: '*' stays within one segment, '**'
\* spans segments
GlobVerdicts ==
    {<<"/Users/*/Documents/*.txt", "/Users/john/Documents/file.txt", TRUE>>,
     <<"/Users/*/Documents/*.txt", "/Users/john/Downloads/file.txt", FALSE>>,
     <<"/tmp/**/*", "/tmp/test.txt", TRUE>>,
     <<"/tmp/**/*", "/tmp/a/b/c/test.txt", TRUE>>,
     <<"/tmp/**/*", "/var/tmp/test.txt", FALSE>>,
     <<"/tmp/*", "/tmp/a", TRUE>>,
     <<"/tmp/*", "/tmp/a/b", FALSE>>}

GlobMode == ~input.config.exact_path_matching /\ input.config.watch_paths # <<>>

\* C17: in glob mode '*' matches within one path segment only and '**'
\* across segments: each pattern and path of the list is accepted or rejected
\* as listed, /tmp/* rejecting /tmp/a/b.
C17_StarStaysInSegment ==
    (Filtered /\ GlobMode /\ PassedPidChecks /\ PassedCategoryCheck) =>
        \A v \in GlobVerdicts :
            (input.config.watch_paths = <<v[1]>> /\ input.event.path = v[2])
                => (EventAccepted <=> v[3])

\* the mnemonics of a write: write, WrData and WrData with a bracket suffix
IsWriteMnemonic(operation) ==
    operation \in {"write", "WrData"} \/ StartsWith(operation, "WrData[")

\* C18: with the writes-only preset no event of a Read mnemonic is forwarded,
\* whatever its pid and path, while write, WrData and WrData[...] events pass
\* the category check (and are forwarded when nothing else rejects them).
C18_WritesOnlyDropsReads ==
    (Filtered /\ input.config.operation_types = WritesOnly) =>
        /\ input.event.operation \in ReadOperations => ~EventAccepted
        /\ IsWriteMnemonic(input.event.operation) =>
              /\ PassedCategoryCheck
              /\ (PassedPidChecks /\ input.config.watch_paths = <<>>) => EventAccepted

\* C18 witness: under the preset a read of a watched pid on a matching path
\* has been rejected
C18_Witness ==
    /\ Filtered /\ input.config.operation_types = WritesOnly
    /\ input.event.operation = "RdData" /\ ~EventAccepted
    /\ PassedPidChecks /\ GlobMode /\ MatchesSomePattern

\* C18 second witness: a bracket-suffixed WrData has been forwarded
C18_WriteWitness ==
    /\ Filtered /\ input.config.operation_types = WritesOnly
    /\ input.event.operation = "WrData[AT3]" /\ EventAccepted

(***************************************************************************)
(* Properties of the builder.                                              *)
(***************************************************************************)
CategoryMethods ==
    {"watch_operations", "watch_writes_only", "watch_reads_only", "exclude_metadata"}

Range(seq) == {seq[k] : k \in 1..Len(seq)}

\* the calls, in order, made with one of the given methods
CallsOf(methods) == SelectSeq(input, LAMBDA c : c.method \in methods)

\* the arguments of those calls, one after the other
RECURSIVE Concat(_)
Concat(calls) ==
    IF calls = <<>> THEN <<>> ELSE Head(calls).args \o Concat(Tail(calls))

\* C19: the category set the builder holds contains every category selected
\* by every watch_operations or preset call made so far.
C19_CategoriesAccumulate ==
    \A k \in 1..Len(CallsOf(CategoryMethods)) :
        Range(CallsOf(CategoryMethods)[k].args)
            \subseteq Range(output.config.operation_types)

\* C19 as amended: the categories are those of the last watch_operations or
\* preset call (All when there was none), while watch paths, watched and
\* excluded pids and excluded process names accumulate in call order.
C19_LastSelectionWins ==
    /\ output.config.operation_types =
          IF CallsOf(CategoryMethods) = <<>> THEN DefaultConfig.operation_types
          ELSE CallsOf(CategoryMethods)[Len(CallsOf(CategoryMethods))].args
    /\ output.config.watch_paths = Concat(CallsOf({"watch_path", "watch_paths"}))
    /\ output.config.watch_pids = Concat(CallsOf({"watch_pid", "watch_pids"}))
    /\ output.config.exclude_pids = Concat(CallsOf({"exclude_pid", "exclude_pids"}))
    /\ output.config.exclude_processes =
          DefaultConfig.exclude_processes
            \o Concat(CallsOf({"exclude_process", "exclude_processes"}))

\* C19 witness: reads only, a watch path, then writes only, and built
C19_Witness ==
    /\ output.built /\ Len(input) = 3
    /\ input[1].method = "watch_reads_only" /\ input[2].method = "watch_path"
    /\ input[3].method = "watch_writes_only"
    /\ output.config.operation_types = WritesOnly

(***************************************************************************)
(* Properties of the worker's read loop.                                   *)
(***************************************************************************)
\* the worker's loop has ended
LoopEnded(w) == worker[w].pc \in {"exit", "done"}

\* C20: a worker whose loop ends (end of stream, read error, failed send)
\* leaves the flag false when it returns and never reads or publishes again;
\* a line the parser or the filter rejects leaves the queue as it was and
\* the worker goes on to read the next line.
C20_LoopEndsAndRejections ==
    [][\A w \in DOMAIN worker :
          /\ (worker[w].pc = "exit" /\ worker'[w].pc = "done") => ~is_running'
          /\ LoopEnded(w) =>
                /\ worker'[w].pc \in {"exit", "done"}
                /\ child'[w].pipe = child[w].pipe \/ child'[w].state = "running"
          /\ (worker[w].pc = "handle" /\ worker'[w].pc # "handle") =>
                LET item == worker[w].line[1]
                IN  /\ item = ReadError => (worker'[w].pc = "exit" /\ queue' = queue)
                    /\ (item # ReadError /\ Accepted(item) = <<>>) =>
                          (worker'[w].pc = "read" /\ queue' = queue)
                    /\ (item # ReadError /\ Accepted(item) # <<>> /\ dropped) =>
                          (worker'[w].pc = "exit" /\ queue' = queue)
                    /\ (item # ReadError /\ Accepted(item) # <<>> /\ ~dropped) =>
                          (worker'[w].pc = "read" /\ Len(queue') = Len(queue) + 1)]_vars

\* C20 witness: with start the only call made, the worker has read an
\* accepted and a rejected line, met the end of the stream and returned
C20_Witness ==
    /\ ncalls = 1 /\ Len(worker) = 1 /\ worker[1].pc = "done" /\ ~is_running
    /\ nread = 2 /\ Len(queue) = 1 /\ child[1].pipe = <<>>

(***************************************************************************)
(* Further properties of the parser.                                       *)
(***************************************************************************)
\* the tokens of a data-transfer line the scan looks at: those after the
\* mnemonic and before the final three
ScannedTokens(in) == SubSeq(Tokens(in), 3, Len(Tokens(in)) - 3)

\* the '/'-bearing ones among them
ScannedPaths(in) == SelectSeq(ScannedTokens(in), LAMBDA t : Contains(t, "/"))

\* a data-transfer line with no device node and a '/'-bearing scanned token
PathWithoutDevice(in) ==
    in.kind = "data" /\ in.device = <<>> /\ ScannedPaths(in) # <<>>

\* C21: for a data-transfer line with no device node among the scanned
\* tokens, parse takes the first scanned token containing '/' as the path,
\* also when later scanned tokens contain '/'.
C21_FirstPathWithoutDevice ==
    (output.done /\ PathWithoutDevice(input)) =>
        /\ output.event # <<>>
        /\ output.event[1].path = ScannedPaths(input)[1]

\* C22: in the generic variant, once a scanned token containing '/' has
\* started the path, that token and every later token up to the final two
\* are part of the path, joined by single blanks, also the later tokens that
\* match a skip rule: none is dropped.
C22_NothingDroppedAfterPathStart ==
    (output.done /\ input.kind = "spaced") =>
        /\ output.event # <<>>
        /\ output.event[1].path = Join(input.words, " ")

\* a generic line whose path token carries the "[-N]" descriptor prefix
HasFdPrefix(in) == in.kind \in {"generic", "failed"} /\ in.path.fd # ""

\* a path with everything through its first ']' dropped
AfterFirstBracket(path) == SubSeq(path, Find(path, "]") + 1, Len(path))

\* C23: when the accumulated path, cut at "Err#", starts with "[-", parse
\* drops everything through the first ']' and keeps the whole remainder,
\* later ']' characters and the text after them included; the cut at "Err#"
\* comes before this step and the private/tmp rewrite after it.
C23_RemainderAfterFirstBracket ==
    (output.done /\ HasFdPrefix(input)) =>
        /\ output.event # <<>>
        /\ output.event[1].path =
             NormalizeTmp(AfterFirstBracket(input.path.fd \o input.path.prefix
                                              \o input.path.rest))

\* a line with a WrData/RdData mnemonic
IsDataLine(in) == in.kind \in {"data", "device"}

\* C27: parse never reports a device node as the path of a data-transfer
\* event: for every WrData/RdData line the path of a returned event does not
\* begin with /dev/, also when the device node is the line's only '/'-bearing
\* token and the generic variant handles the line.
C27_NoDeviceNodeAsPath ==
    (output.done /\ IsDataLine(input) /\ output.event # <<>>) =>
        ~StartsWith(output.event[1].path, "/dev/")

(***************************************************************************)
(* A further property of the filter.                                       *)
(***************************************************************************)
\* the filter's decision for the event under test as another process would
\* have reported it, at another time and with another result, under the
\* configuration with another exclude_processes
DecisionFor(origin, exclude_processes) ==
    LET event == FsEvent(origin.timestamp, origin.process_name, input.event.pid,
                         input.event.operation, input.event.path, origin.result)
        config == [input.config EXCEPT !.exclude_processes = exclude_processes]
    IN  should_send_event(event, CompilePatterns(config.watch_paths), config)

\* C26: the filter's decision does not depend on the event's process name or
\* on exclude_processes: events that agree on pid, operation and path get
\* the same decision whatever their process_name, timestamp and result are
\* and whether or not process_name is in exclude_processes.
C26_ProcessNameIgnored ==
    Filtered =>
        \A origin \in EventOrigins, exclude_processes \in ExcludeProcessLists :
            DecisionFor(origin, exclude_processes) <=> EventAccepted

\* C26 witness: an event whose process name is in exclude_processes has been
\* accepted
C26_Witness ==
    /\ Filtered /\ EventAccepted
    /\ VecContains(input.config.exclude_processes, input.event.process_name)

(***************************************************************************)
(* Further properties of the pipeline.                                     *)
(***************************************************************************)
\* stop has cleared the flag of the run it held and start has not been
\* called since
StoppedRun == last.op = "stop" /\ last.held # 0

\* worker w puts an event on the channel in this step
Publishes(w) == worker'[w] # worker[w] /\ Len(queue') > Len(queue)

\* C24: once stop has cleared the flag, and as long as start is not called
\* again, the worker of that run publishes only the line it had already
\* passed the flag check for, so at most one further event: it passes the
\* check for no further line, a line it has read goes from the flag check
\* to the exit without being parsed, and from there the thread returns.
C24_AtMostOneEventAfterStop ==
    [][(StoppedRun /\ last' = last) =>
          LET w == last.held
          IN  /\ Publishes(w) => worker[w].pc = "handle"
              /\ worker[w].pc # "handle" => worker'[w].pc # "handle"
              /\ worker[w].pc = "check" => worker'[w].pc \in {"check", "exit"}
              /\ worker[w].pc = "exit" => worker'[w].pc \in {"exit", "done"}
              /\ worker[w].pc = "done" => worker'[w].pc = "done"]_vars

\* C24 witness: after a stop the worker of the run has returned; it has
\* published the first line it read and holds, unparsed, a second line that
\* would have passed the filter
C24_Witness ==
    /\ StoppedRun /\ worker[last.held].pc = "done"
    /\ Len(queue) = 1 /\ queue[1].seq = 1
    /\ worker[last.held].seq = 2
    /\ worker[last.held].line # <<>>
    /\ worker[last.held].line[1] # ReadError
    /\ Accepted(worker[last.held].line[1]) # <<>>

\* the subprocesses that have not been killed and waited for
Unreaped == {c \in DOMAIN child : child[c].state # "reaped"}

\* the subprocesses that are still running
Running == {c \in DOMAIN child : child[c].state = "running"}

\* C25: at most one tracer subprocess launched by the pipeline is running at
\* any time: start never spawns a subprocess or replaces the held handle
\* while a subprocess spawned before has not been killed and waited for, so
\* when stop or drop has returned no subprocess is running.
C25_OneSubprocess ==
    /\ [](Cardinality(Running) <= 1)
    /\ [][(IsCall("start") /\ (child' # child \/ process' # process)) =>
             Unreaped = {}]_vars
    /\ [](last.op \in {"stop", "drop"} => Running = {})

=============================================================================
